---- MODULE Spec2Model ----
(***************************************************************************)
(* Model of the Mamdani fuzzy inference engine of the event recommendation *)
(* system (fuzzy/custom_mamdani.py) and of its domain adapter              *)
(* (fuzzy/custom_event_system.py).                                         *)
(*                                                                         *)
(* Numbers are exact rationals <<numerator, denominator>> in lowest terms  *)
(* with a positive denominator; <<0, 0>> stands for the nan/inf that a     *)
(* numpy float division by zero produces.  Python indexes sequences from 0 *)
(* and TLA+ from 1, so universe[0] is universe[1] here and universe[-1] is *)
(* universe[Len(universe)].                                                *)
(***************************************************************************)
EXTENDS Integers, Sequences, FiniteSets, TLC

VARIABLES
    universe,            \* FuzzySet.universe
    membership_values,   \* FuzzySet.membership_values
    shape,               \* the constructor call that filled membership_values
    x,                   \* argument of the last FuzzySet.membership call
    degree,              \* value returned by the last FuzzySet.membership call
    rule,                \* the FuzzyRule under test: antecedent, consequent, weight
    fuzzified_inputs,    \* variable name -> set name -> degree
    rule_output,         \* value returned by the last FuzzyRule.evaluate call
    input_variables,     \* MamdaniFuzzySystem.input_variables: name -> FuzzyVariable
    output_variables,    \* MamdaniFuzzySystem.output_variables: name -> FuzzyVariable
    rules,               \* MamdaniFuzzySystem.rules
    inputs,              \* argument of the last MamdaniFuzzySystem.evaluate call
    aggregated_outputs,  \* output variable -> set name -> aggregated strength
    crisp_outputs,       \* value returned by the last MamdaniFuzzySystem.evaluate call
    score,               \* value returned by the last CustomEventFuzzySystem.evaluate call
    error,               \* exception raised by the last call, "none" if it returned
    last_call,           \* name of the operation that ran last
    calls,               \* caller -> frame of the caller's evaluate call: position and locals
    user_preferences,    \* RecommendationService.user_preferences
    events,              \* RecommendationService.events
    history_calls        \* event id -> the last history call made for it

setVars == <<universe, membership_values, shape, x, degree>>

ruleVars == <<rule, fuzzified_inputs, rule_output>>

modelVars == <<input_variables, output_variables, rules>>

evalVars == <<inputs, aggregated_outputs, crisp_outputs, score>>

serviceVars == <<user_preferences, events, history_calls>>

vars == <<setVars, ruleVars, modelVars, evalVars, error, last_call, calls, serviceVars>>

----
(* Bounds of the model *)

\* the universe of the FuzzySet under test is linspace(0, UMax, NumPoints),
\* its samples are Step apart
Step == 2
NumPoints == 3
UMax == Step * (NumPoints - 1)
\* shape parameters are the integers -1 .. UMax+1; crisp values are the
\* multiples of 1/XDen in the same range
XDen == 1
\* the rule base of the system under test holds at most MaxRules rules
MaxRules == 2
\* at most MaxCallers callers run evaluate on one system at the same time,
\* each of them at most MaxCallsEach times
MaxCallers == 2
MaxCallsEach == 2

----
(* Exact arithmetic standing for the float arithmetic of the source *)

Abs(n) == IF n < 0 THEN -n ELSE n

RECURSIVE GCD(_, _)
GCD(a, b) == IF b = 0 THEN a ELSE GCD(b, a % b)

NaN == <<0, 0>>

Frac(n, d) ==
    IF d = 0 THEN NaN
    ELSE LET g == GCD(Abs(n), Abs(d))
             s == IF d < 0 THEN -1 ELSE 1
         IN  <<s * (n \div g), s * (d \div g)>>

Num(n) == <<n, 1>>

\* nan + q and p + nan are nan
Add(p, q) ==
    IF p[2] = 0 \/ q[2] = 0 THEN NaN
    ELSE LET g == GCD(p[2], q[2])
         IN  Frac(p[1] * (q[2] \div g) + q[1] * (p[2] \div g), (p[2] \div g) * q[2])

Neg(p) == <<-p[1], p[2]>>

Sub(p, q) == Add(p, Neg(q))

\* nan * q and p * nan are nan
Mul(p, q) ==
    IF p[2] = 0 \/ q[2] = 0 THEN NaN
    ELSE LET g1 == GCD(Abs(p[1]), q[2])
             g2 == GCD(Abs(q[1]), p[2])
         IN  Frac((p[1] \div g1) * (q[1] \div g2), (p[2] \div g2) * (q[2] \div g1))

Div(p, q) == IF q[1] = 0 THEN NaN ELSE Mul(p, Frac(q[2], q[1]))

Lt(p, q) == p[1] * q[2] < q[1] * p[2]

Le(p, q) == p[1] * q[2] <= q[1] * p[2]

Min(p, q) == IF Le(p, q) THEN p ELSE q

Max(p, q) == IF Le(q, p) THEN p ELSE q

\* a finite number, not the nan of a division by zero
IsNumber(p) == p[2] > 0

InUnit(p) == IsNumber(p) /\ Le(Num(0), p) /\ Le(p, Num(1))

----
(* FuzzySet *)

linspace(start, stop, num) ==
    [i \in 1..num |-> Add(start, Div(Mul(Num(i - 1), Sub(stop, start)), Num(num - 1)))]

zeros_like(u) == [i \in 1..Len(u) |-> Num(0)]

\* np.searchsorted(universe, v): the smallest index whose sample is >= v
\* (the universe is sorted, so that is the index whose predecessor is < v)
searchsorted(u, v) ==
    CHOOSE i \in 1..Len(u) :
        /\ Le(v, u[i])
        /\ i > 1 => Lt(u[i - 1], v)

\* membership with the flat extrapolation replaced by "0 outside the universe"
membership_zero_outside(u, mv, v) ==
    IF Lt(v, u[1]) \/ Lt(u[Len(u)], v) THEN Num(0)
    ELSE IF v = u[1] THEN mv[1]
    ELSE LET idx == searchsorted(u, v)
         IN  Add(mv[idx - 1],
                 Div(Mul(Sub(mv[idx], mv[idx - 1]), Sub(v, u[idx - 1])),
                     Sub(u[idx], u[idx - 1])))

\* membership with the two bracketing degrees swapped in the interpolation
membership_swapped(u, mv, v) ==
    IF Le(v, u[1]) THEN mv[1]
    ELSE IF Le(u[Len(u)], v) THEN mv[Len(u)]
    ELSE LET idx == searchsorted(u, v)
         IN  Add(mv[idx],
                 Div(Mul(Sub(mv[idx - 1], mv[idx]), Sub(v, u[idx - 1])),
                     Sub(u[idx], u[idx - 1])))

\* membership without the interpolation: the degree stored at the upper
\* sample of the bracketing pair
membership_step(u, mv, v) ==
    IF Le(v, u[1]) THEN mv[1]
    ELSE IF Le(u[Len(u)], v) THEN mv[Len(u)]
    ELSE mv[searchsorted(u, v)]

\* membership with the first and the last segment continued beyond the universe
membership_linear_outside(u, mv, v) ==
    LET idx == IF Le(v, u[1]) THEN 2
               ELSE IF Le(u[Len(u)], v) THEN Len(u)
               ELSE searchsorted(u, v)
    IN  Add(mv[idx - 1],
            Div(Mul(Sub(mv[idx], mv[idx - 1]), Sub(v, u[idx - 1])),
                Sub(u[idx], u[idx - 1])))

membership(u, mv, v) ==
    IF Le(v, u[1]) THEN mv[1]
    ELSE IF Le(u[Len(u)], v) THEN mv[Len(u)]
    ELSE LET idx == searchsorted(u, v)
             x1 == u[idx - 1]
             x2 == u[idx]
             y1 == mv[idx - 1]
             y2 == mv[idx]
         IN  Add(y1, Div(Mul(Sub(y2, y1), Sub(v, x1)), Sub(x2, x1)))

\* triangular with the rising edge divided by the whole base (c - a)
triangular_wrong_slope(u, a, b, c) ==
    [i \in 1..Len(u) |->
        IF Le(u[i], a) \/ Le(c, u[i]) THEN Num(0)
        ELSE IF Lt(a, u[i]) /\ Le(u[i], b) THEN Div(Sub(u[i], a), Sub(c, a))
        ELSE IF Lt(b, u[i]) /\ Lt(u[i], c) THEN Div(Sub(c, u[i]), Sub(c, b))
        ELSE Num(0)]

triangular(u, a, b, c) ==
    [i \in 1..Len(u) |->
        IF Le(u[i], a) \/ Le(c, u[i]) THEN Num(0)
        ELSE IF Lt(a, u[i]) /\ Le(u[i], b) THEN Div(Sub(u[i], a), Sub(b, a))
        ELSE IF Lt(b, u[i]) /\ Lt(u[i], c) THEN Div(Sub(c, u[i]), Sub(c, b))
        ELSE Num(0)]

\* trapezoidal without the plateau branch: the rising edge runs on up to c
trapezoidal_no_plateau(u, a, b, c, d) ==
    [i \in 1..Len(u) |->
        IF Le(u[i], a) \/ Le(d, u[i]) THEN Num(0)
        ELSE IF Lt(a, u[i]) /\ Le(u[i], c) THEN Div(Sub(u[i], a), Sub(b, a))
        ELSE IF Lt(c, u[i]) /\ Lt(u[i], d) THEN Div(Sub(d, u[i]), Sub(d, c))
        ELSE Num(0)]

trapezoidal(u, a, b, c, d) ==
    [i \in 1..Len(u) |->
        IF Le(u[i], a) \/ Le(d, u[i]) THEN Num(0)
        ELSE IF Lt(a, u[i]) /\ Le(u[i], b) THEN Div(Sub(u[i], a), Sub(b, a))
        ELSE IF Lt(b, u[i]) /\ Le(u[i], c) THEN Num(1)
        ELSE IF Lt(c, u[i]) /\ Lt(u[i], d) THEN Div(Sub(d, u[i]), Sub(d, c))
        ELSE Num(0)]

\* a set that no shape constructor has filled yet
\* np.exp(-t) for t >= 0.  The exact rationals of the model cannot hold
\* e^-t; a rational curve with the same shape stands for it: 1 at t = 0,
\* strictly decreasing, positive, tending to 0.
exp_neg(t) == Div(Num(1), Add(Num(1), Add(t, Div(Mul(t, t), Num(2)))))

\* FuzzySet.gaussian(mean, sigma): exp(-(x - mean)^2 / (2 * sigma^2)) at every
\* sample.  With sigma = 0 the array division gives -0/0 = nan at a sample
\* equal to mean and -inf elsewhere (a RuntimeWarning, no exception), and
\* exp turns these into nan and 0.
gaussian(u, mean, sigma) ==
    [i \in 1..Len(u) |->
        IF sigma = Num(0)
        THEN IF u[i] = mean THEN NaN ELSE Num(0)
        ELSE exp_neg(Div(Mul(Sub(u[i], mean), Sub(u[i], mean)),
                         Mul(Num(2), Mul(sigma, sigma))))]

NoShape == [kind |-> "zeros"]

----
(* FuzzyRule *)

FuzzyRule(antecedent, consequent, weight) ==
    [antecedent |-> antecedent, consequent |-> consequent, weight |-> weight]

\* a dict without entries
EmptyDict == [k \in {} |-> k]

NoRule == [antecedent |-> EmptyDict, consequent |-> EmptyDict, weight |-> Num(1)]

RuleIdle ==
    /\ rule = NoRule
    /\ fuzzified_inputs = EmptyDict
    /\ rule_output = EmptyDict

\* no RecommendationService is part of the system under test
ServiceIdle ==
    /\ user_preferences = EmptyDict
    /\ events = <<>>
    /\ history_calls = EmptyDict

\* MamdaniFuzzySystem.__init__ and no evaluate call yet
SystemIdle ==
    /\ input_variables = EmptyDict
    /\ output_variables = EmptyDict
    /\ rules = <<>>
    /\ inputs = EmptyDict
    /\ aggregated_outputs = EmptyDict
    /\ crisp_outputs = EmptyDict
    /\ score = Num(0)

\* dict.get(key, default)
Get(dict, key, default) == IF key \in DOMAIN dict THEN dict[key] ELSE default

\* str.upper() on the operator spellings the model uses
upper(str) ==
    CASE str = "and" -> "AND"
      [] str = "or" -> "OR"
      [] str = "xor" -> "XOR"
      [] OTHER -> str

\* min(strengths) and max(strengths) of a non-empty collection of degrees
min(strengths) == CHOOSE p \in strengths : \A q \in strengths : Le(p, q)

max(strengths) == CHOOSE p \in strengths : \A q \in strengths : Le(q, p)

\* the antecedent keys other than the operation key
Terms(antecedent) == DOMAIN antecedent \ {"op"}

\* the loop over the antecedent with a term that has no degree left out
\* instead of counted as 0.0
Strengths_skip_absent(antecedent, fuzzified) ==
    {fuzzified[var_name][antecedent[var_name]] :
        var_name \in {t \in Terms(antecedent) :
                         /\ t \in DOMAIN fuzzified
                         /\ antecedent[t] \in DOMAIN fuzzified[t]}}

\* the degrees collected by the loop over the antecedent
Strengths(antecedent, fuzzified) ==
    {Get(Get(fuzzified, var_name, EmptyDict), antecedent[var_name], Num(0)) :
        var_name \in Terms(antecedent)}

Operation(antecedent) == upper(Get(antecedent, "op", "AND"))

\* FuzzyRule.evaluate with the final else treated as OR: nothing is raised
RuleRaises_lenient(antecedent) == FALSE

\* FuzzyRule.evaluate raises ValueError for an operation other than AND, OR
RuleRaises(antecedent) == Operation(antecedent) \notin {"AND", "OR"}

\* AND rules that combine with max and OR rules that combine with min
firing_strength_swapped(antecedent, weight, fuzzified) ==
    LET strengths == Strengths(antecedent, fuzzified)
        combined == IF strengths = {} THEN Num(0)
                    ELSE IF Operation(antecedent) = "AND" THEN max(strengths)
                    ELSE min(strengths)
    IN  Mul(combined, weight)

firing_strength(antecedent, weight, fuzzified) ==
    LET strengths == Strengths(antecedent, fuzzified)
        combined == IF strengths = {} THEN Num(0)
                    ELSE IF Operation(antecedent) = "AND" THEN min(strengths)
                    ELSE max(strengths)
    IN  Mul(combined, weight)

FuzzyRule_evaluate(r, fuzzified) ==
    [out_var \in DOMAIN r.consequent |->
        [out_set \in {r.consequent[out_var]} |->
            firing_strength(r.antecedent, r.weight, fuzzified)]]

----
(* FuzzyVariable and MamdaniFuzzySystem *)

\* FuzzyVariable(name, universe_min, universe_max, num_points) with its sets;
\* a set is kept as its membership_values over the shared universe
FuzzyVariable(universe_min, universe_max, num_points, sets) ==
    [universe |-> linspace(universe_min, universe_max, num_points), sets |-> sets]

fuzzify(variable, crisp_value) ==
    [name \in DOMAIN variable.sets |->
        membership(variable.universe, variable.sets[name], crisp_value)]

\* the fuzzification step with "break" for "skip": an input that names no
\* input variable ends the loop, here before any variable is fuzzified
Fuzzification_break(in_vars, ins) ==
    [var_name \in {n \in DOMAIN ins \cap DOMAIN in_vars : DOMAIN ins \subseteq DOMAIN in_vars} |->
        fuzzify(in_vars[var_name], ins[var_name])]

\* the fuzzification step: inputs that name no input variable are skipped
Fuzzification(in_vars, ins) ==
    [var_name \in DOMAIN ins \cap DOMAIN in_vars |->
        fuzzify(in_vars[var_name], ins[var_name])]

\* every set of every output variable starts at strength 0.0
InitialAggregate(out_vars) ==
    [output_var_name \in DOMAIN out_vars |->
        [set_name \in DOMAIN out_vars[output_var_name].sets |-> Num(0)]]

\* dict[key] = value
Put(dict, key, value) ==
    [k \in DOMAIN dict \cup {key} |-> IF k = key THEN value ELSE dict[k]]

\* the inner loops of the aggregation with "last rule wins" instead of max
AggregateRule_overwrite(aggregated, r, fuzzified) ==
    LET strength == firing_strength(r.antecedent, r.weight, fuzzified)
    IN  [out_var_name \in DOMAIN aggregated |->
            IF out_var_name \in DOMAIN r.consequent
            THEN Put(aggregated[out_var_name], r.consequent[out_var_name], strength)
            ELSE aggregated[out_var_name]]

\* the inner loops of the aggregation with the dict of the output variable
\* replaced by one that holds the rule's set alone
AggregateRule_replace(aggregated, r, fuzzified) ==
    LET strength == firing_strength(r.antecedent, r.weight, fuzzified)
    IN  [out_var_name \in DOMAIN aggregated |->
            IF out_var_name \in DOMAIN r.consequent
            THEN LET set_name == r.consequent[out_var_name]
                 IN  [s \in {set_name} |->
                         Max(Get(aggregated[out_var_name], set_name, Num(0)), strength)]
            ELSE aggregated[out_var_name]]

\* the inner loops of the aggregation with "first rule that fires wins"
AggregateRule_first_wins(aggregated, r, fuzzified) ==
    LET strength == firing_strength(r.antecedent, r.weight, fuzzified)
    IN  [out_var_name \in DOMAIN aggregated |->
            IF out_var_name \in DOMAIN r.consequent
            THEN LET set_name == r.consequent[out_var_name]
                     current == Get(aggregated[out_var_name], set_name, Num(0))
                 IN  Put(aggregated[out_var_name], set_name,
                         IF Lt(Num(0), current) THEN current ELSE strength)
            ELSE aggregated[out_var_name]]

\* the inner loops of the aggregation: one rule's output folded in with max
AggregateRule(aggregated, r, fuzzified) ==
    LET strength == firing_strength(r.antecedent, r.weight, fuzzified)
    IN  [out_var_name \in DOMAIN aggregated |->
            IF out_var_name \in DOMAIN r.consequent
            THEN LET set_name == r.consequent[out_var_name]
                 IN  Put(aggregated[out_var_name], set_name,
                         Max(Get(aggregated[out_var_name], set_name, Num(0)), strength))
            ELSE aggregated[out_var_name]]

\* the loop over self.rules, from rule number i on
RECURSIVE Aggregate(_, _, _, _)
Aggregate(aggregated, rs, i, fuzzified) ==
    IF i > Len(rs) THEN aggregated
    ELSE Aggregate(AggregateRule(aggregated, rs[i], fuzzified), rs, i + 1, fuzzified)

\* the sets whose truncated curve enters the aggregated membership function
Fired(var_sets) == {set_name \in DOMAIN var_sets : Lt(Num(0), var_sets[set_name])}

\* the lookup raising for every aggregated set name that is not defined,
\* fired or not
LookupRaises_any(out_vars, aggregated) ==
    \E var_name \in DOMAIN aggregated :
        \E set_name \in DOMAIN aggregated[var_name] :
            set_name \notin DOMAIN out_vars[var_name].sets

\* output_var.sets[set_name] raises KeyError for a fired set that is not defined
LookupRaises(out_vars, aggregated) ==
    \E var_name \in DOMAIN aggregated :
        \E set_name \in Fired(aggregated[var_name]) :
            set_name \notin DOMAIN out_vars[var_name].sets

\* aggregated_mf: pointwise max over the fired sets of the truncated curves
AggregatedMF(output_var, var_sets) ==
    [i \in 1..Len(output_var.universe) |->
        max({Num(0)} \cup
            {Min(output_var.sets[set_name][i], var_sets[set_name]) :
                set_name \in Fired(var_sets)})]

\* np.sum adds the values pairwise, halving the range
RECURSIVE SumRange(_, _, _)
SumRange(values, lo, hi) ==
    IF lo > hi THEN Num(0)
    ELSE IF lo = hi THEN values[lo]
    ELSE LET mid == (lo + hi) \div 2
         IN  Add(SumRange(values, lo, mid), SumRange(values, mid + 1, hi))

sum(values) == SumRange(values, 1, Len(values))

\* universe * aggregated_mf
Product(u, mf) == [i \in 1..Len(u) |-> Mul(u[i], mf[i])]

\* the defuzzification without the test for an all-zero curve
Defuzzify_unguarded(u, aggregated_mf) ==
    Div(sum(Product(u, aggregated_mf)), sum(aggregated_mf))

\* the defuzzification dividing by the number of samples
Defuzzify_mean(u, aggregated_mf) ==
    IF Lt(Num(0), sum(aggregated_mf))
    THEN Div(sum(Product(u, aggregated_mf)), Num(Len(u)))
    ELSE Div(Add(u[1], u[Len(u)]), Num(2))

\* the defuzzification dividing by the height of the curve
Defuzzify_by_peak(u, aggregated_mf) ==
    IF Lt(Num(0), sum(aggregated_mf))
    THEN Div(sum(Product(u, aggregated_mf)), max({aggregated_mf[i] : i \in 1..Len(u)}))
    ELSE Div(Add(u[1], u[Len(u)]), Num(2))

\* Center of Area, or the middle of the universe if no rule fires
Defuzzify(u, aggregated_mf) ==
    IF Lt(Num(0), sum(aggregated_mf))
    THEN Div(sum(Product(u, aggregated_mf)), sum(aggregated_mf))
    ELSE Div(Add(u[1], u[Len(u)]), Num(2))

Defuzzification(out_vars, aggregated) ==
    [var_name \in DOMAIN aggregated |->
        Defuzzify(out_vars[var_name].universe,
                  AggregatedMF(out_vars[var_name], aggregated[var_name]))]

\* MamdaniFuzzySystem.evaluate(ins): the three steps of the call, each bound
\* to the local it computes.  A rule with an unknown operation raises
\* ValueError during the aggregation, a fired set that is not defined raises
\* KeyError during the defuzzification.
MamdaniEvaluate(ins) ==
    \E fuzzified \in {Fuzzification(input_variables, ins)} :
        \E aggregated \in {Aggregate(InitialAggregate(output_variables), rules, 1, fuzzified)} :
            /\ inputs' = ins
            /\ fuzzified_inputs' = fuzzified
            /\ IF \E i \in 1..Len(rules) : RuleRaises(rules[i].antecedent)
               THEN /\ error' = "ValueError"
                    /\ aggregated_outputs' = EmptyDict
                    /\ crisp_outputs' = EmptyDict
               ELSE IF LookupRaises(output_variables, aggregated)
               THEN /\ error' = "KeyError"
                    /\ aggregated_outputs' = aggregated
                    /\ crisp_outputs' = EmptyDict
               ELSE /\ error' = "none"
                    /\ aggregated_outputs' = aggregated
                    /\ crisp_outputs' = Defuzzification(output_variables, aggregated)

\* what MamdaniFuzzySystem.evaluate(ins) returns or raises on a system with
\* the given variables and rules
EvaluateOutcome(in_vars, out_vars, rs, ins) ==
    LET fuzzified == Fuzzification(in_vars, ins)
        aggregated == Aggregate(InitialAggregate(out_vars), rs, 1, fuzzified)
    IN  IF \E i \in 1..Len(rs) : RuleRaises(rs[i].antecedent)
        THEN [error |-> "ValueError", crisp_outputs |-> EmptyDict]
        ELSE IF LookupRaises(out_vars, aggregated)
        THEN [error |-> "KeyError", crisp_outputs |-> EmptyDict]
        ELSE [error |-> "none", crisp_outputs |-> Defuzzification(out_vars, aggregated)]

----
(* Specification of one FuzzyRule evaluated on given fuzzified inputs *)

Degrees == {Num(0), Frac(3, 10), Frac(8, 10)}

Weights == {Num(1), Frac(1, 2)}

Dicts(keys, values) == UNION {[d -> values] : d \in SUBSET keys}

\* the antecedents of the rules under test; "mid" is a set name for which
\* the fuzzified inputs hold no degree
Antecedents ==
    {a \in Dicts({"X", "Y", "op"}, {"lo", "mid", "hi", "AND", "OR", "or", "xor"}) :
        /\ \A k \in Terms(a) : a[k] \in {"lo", "mid", "hi"}
        /\ "op" \in DOMAIN a => a["op"] \in {"AND", "OR", "or", "xor"}}

Consequents == {[k \in {"Z"} |-> "lo"], [k \in {"Z", "W"} |-> "hi"]}

FuzzifiedChoices ==
    UNION {[d -> [{"lo", "hi"} -> Degrees]] : d \in {{"X", "Y"}, {"X"}}}

RuleInit ==
    /\ rule = NoRule
    /\ fuzzified_inputs \in FuzzifiedChoices
    /\ rule_output = EmptyDict
    /\ error = "none"
    /\ last_call = "__init__"
    /\ calls = <<>>
    /\ ServiceIdle
    /\ SystemIdle
    /\ universe = <<>>
    /\ membership_values = <<>>
    /\ shape = NoShape
    /\ x = Num(0)
    /\ degree = Num(0)

\* FuzzyRule(antecedent, consequent, weight).evaluate(fuzzified_inputs)
CallRuleEvaluate ==
    \E a \in Antecedents, c \in Consequents, w \in Weights :
        /\ rule' = [antecedent |-> a, consequent |-> c, weight |-> w]
        /\ IF RuleRaises(a)
           THEN /\ error' = "ValueError"
                /\ rule_output' = EmptyDict
           ELSE /\ error' = "none"
                /\ rule_output' = FuzzyRule_evaluate(rule', fuzzified_inputs)
        /\ last_call' = "FuzzyRule.evaluate"
        /\ UNCHANGED <<fuzzified_inputs, setVars, modelVars, evalVars, calls, serviceVars>>

RuleNext == CallRuleEvaluate

SpecRule == RuleInit /\ [][RuleNext]_vars

----
(* Properties of FuzzyRule, checked under SpecRule *)

\* the degree that the rule under test reads for the antecedent term var_name
TermDegree(var_name) ==
    IF var_name \in DOMAIN fuzzified_inputs
       /\ rule.antecedent[var_name] \in DOMAIN fuzzified_inputs[var_name]
    THEN fuzzified_inputs[var_name][rule.antecedent[var_name]]
    ELSE Num(0)

\* the rule X IS lo <operation> Y IS lo was evaluated on X.lo = 0.3, Y.lo = 0.8
AskedExample(operation, weight) ==
    /\ last_call = "FuzzyRule.evaluate"
    /\ "Y" \in DOMAIN fuzzified_inputs
    /\ fuzzified_inputs["X"]["lo"] = Frac(3, 10)
    /\ fuzzified_inputs["Y"]["lo"] = Frac(8, 10)
    /\ rule.antecedent = [k \in {"X", "Y", "op"} |-> IF k = "op" THEN operation ELSE "lo"]
    /\ rule.weight = weight

\* C3: the firing strength is weight x C, with C the least term degree for
\* AND, the greatest for OR and 0 for an antecedent without terms; for the
\* degrees 0.3 and 0.8 AND gives 0.3, OR gives 0.8 and weight 0.5 halves both.
C3_FiringStrength ==
    (last_call = "FuzzyRule.evaluate" /\ error = "none") =>
        \A out_var \in DOMAIN rule.consequent :
            LET strength == rule_output[out_var][rule.consequent[out_var]]
                terms == DOMAIN rule.antecedent \ {"op"}
                operation == Operation(rule.antecedent)
            IN  /\ DOMAIN rule_output[out_var] = {rule.consequent[out_var]}
                /\ terms = {} => strength = Num(0)
                /\ (terms # {} /\ operation = "AND") =>
                       \E t \in terms :
                           /\ \A t2 \in terms : Le(TermDegree(t), TermDegree(t2))
                           /\ strength = Mul(rule.weight, TermDegree(t))
                /\ (terms # {} /\ operation = "OR") =>
                       \E t \in terms :
                           /\ \A t2 \in terms : Le(TermDegree(t2), TermDegree(t))
                           /\ strength = Mul(rule.weight, TermDegree(t))
                /\ AskedExample("AND", Num(1)) => strength = Frac(3, 10)
                /\ AskedExample("OR", Num(1)) => strength = Frac(8, 10)
                /\ AskedExample("AND", Frac(1, 2)) => strength = Frac(3, 20)
                /\ AskedExample("OR", Frac(1, 2)) => strength = Frac(8, 20)

C3_Witness ==
    /\ AskedExample("AND", Frac(1, 2))
    /\ error = "none"
    /\ rule_output["Z"] = [s \in {"lo"} |-> Frac(3, 20)]

\* the antecedent terms of the rule under test for which the fuzzified
\* inputs hold no degree: the variable is absent, or the set is
AbsentTerms ==
    {t \in DOMAIN rule.antecedent \ {"op"} :
        \/ t \notin DOMAIN fuzzified_inputs
        \/ rule.antecedent[t] \notin DOMAIN fuzzified_inputs[t]}

\* C12: an antecedent term without a degree in the fuzzified inputs counts as
\* 0.0 and raises nothing: the call fails for an unknown operation only, an
\* AND rule with such a term has firing strength 0, and an OR rule has
\* weight x the greatest of 0 and the degrees of its other terms.
C12_AbsentTermIsZero ==
    (last_call = "FuzzyRule.evaluate" /\ AbsentTerms # {}) =>
        /\ error \in {"none", "ValueError"}
        /\ error = "ValueError" <=>
               /\ "op" \in DOMAIN rule.antecedent
               /\ rule.antecedent["op"] \notin {"AND", "OR", "and", "or"}
        /\ error = "none" =>
               \A out_var \in DOMAIN rule.consequent :
                   LET strength == rule_output[out_var][rule.consequent[out_var]]
                       present == {fuzzified_inputs[t][rule.antecedent[t]] :
                                      t \in (DOMAIN rule.antecedent \ {"op"}) \ AbsentTerms}
                       conjunctive == \/ "op" \notin DOMAIN rule.antecedent
                                      \/ rule.antecedent["op"] \in {"AND", "and"}
                   IN  /\ conjunctive => strength = Num(0)
                       /\ ~conjunctive =>
                              /\ \A p \in present : Le(Mul(rule.weight, p), strength)
                              /\ strength \in {Mul(rule.weight, p) : p \in present \cup {Num(0)}}

\* an AND rule over X and Y was evaluated without fuzzified degrees for Y,
\* on a positive degree for X
C12_Witness ==
    /\ last_call = "FuzzyRule.evaluate"
    /\ error = "none"
    /\ Operation(rule.antecedent) = "AND"
    /\ "Y" \notin DOMAIN fuzzified_inputs
    /\ AbsentTerms = {"Y"}
    /\ "X" \in DOMAIN rule.antecedent
    /\ Lt(Num(0), fuzzified_inputs["X"][rule.antecedent["X"]])
    /\ rule_output["Z"][rule.consequent["Z"]] = Num(0)

----
(* Specification of a MamdaniFuzzySystem: a built system, add_rule, evaluate *)

SysUniverse == linspace(Num(0), Num(UMax), NumPoints)

SetLo == triangular(SysUniverse, Num(-Step), Num(0), Num(2 * Step))

SetHi == triangular(SysUniverse, Num(UMax - 2 * Step), Num(UMax), Num(UMax + Step))

SetMid == triangular(SysUniverse, Num(0), Num(Step), Num(2 * Step))

SetLoFlat == trapezoidal(SysUniverse, Num(-1), Num(0), Num(Step), Num(UMax))

SetWide == trapezoidal(SysUniverse, Num(1), Num(Step), Num(2 * Step), Num(UMax + 1))

\* add_input_variable("X", ...), add_input_variable("Y", ...), each with lo and hi
SysInputVariables ==
    [name \in {"X", "Y"} |->
        FuzzyVariable(Num(0), Num(UMax), NumPoints, ("lo" :> SetLo @@ "hi" :> SetHi))]

\* add_output_variable("Z", ...) with three sets, alone or next to "W"
SysOutputChoices ==
    { ("Z" :> FuzzyVariable(Num(0), Num(UMax), NumPoints,
                            ("lo" :> SetLo @@ "mid" :> SetMid @@ "hi" :> SetHi))
       @@ "W" :> FuzzyVariable(Num(0), Num(UMax), NumPoints, ("hi" :> SetWide))),
      ("Z" :> FuzzyVariable(Num(0), Num(UMax), NumPoints,
                            ("lo" :> SetLoFlat @@ "mid" :> SetMid @@ "hi" :> SetHi))) }

\* the rules that add_rule is called with; "mid" is no set of Y, "top" no
\* set of Z, "W" is an output variable of the first output choice only, and
\* the weights lie below, at and above 1
SysRules ==
    { FuzzyRule(("X" :> "lo" @@ "Y" :> "lo" @@ "op" :> "AND"), ("Z" :> "lo"), Num(1)),
      FuzzyRule(("X" :> "hi" @@ "Y" :> "hi" @@ "op" :> "OR"), ("Z" :> "hi"), Num(2)),
      FuzzyRule(("X" :> "hi"), ("Z" :> "lo"), Frac(1, 2)),
      FuzzyRule(("Y" :> "hi" @@ "op" :> "or"), ("Z" :> "hi" @@ "W" :> "hi"), Frac(1, 2)),
      FuzzyRule(("op" :> "AND"), ("Z" :> "hi"), Num(1)),
      FuzzyRule(("X" :> "lo" @@ "Y" :> "mid" @@ "op" :> "AND"), ("Z" :> "lo"), Num(1)),
      FuzzyRule(("X" :> "lo" @@ "op" :> "xor"), ("Z" :> "lo"), Num(1)),
      FuzzyRule(("X" :> "hi"), ("Z" :> "top"), Num(1)) }

\* the crisp values that evaluate is called with: below the universe, inside
\* it and beyond its last sample
SysValues == {Num(-1), Num(Step + 1), Num(UMax + 1)}

\* the input mappings that evaluate is called with: a value for X and for Y,
\* for X alone, or for X and for "Q", which is no input variable
SysInputs ==
    [{"X", "Y"} -> SysValues] \cup [{"X"} -> SysValues]
        \cup {("X" :> Num(Step + 1) @@ "Q" :> Num(Step))}

SysInit ==
    /\ input_variables = SysInputVariables
    /\ output_variables \in SysOutputChoices
    /\ rules = <<>>
    /\ inputs = EmptyDict
    /\ aggregated_outputs = EmptyDict
    /\ crisp_outputs = EmptyDict
    /\ score = Num(0)
    /\ RuleIdle
    /\ error = "none"
    /\ last_call = "__init__"
    /\ calls = <<>>
    /\ ServiceIdle
    /\ universe = <<>>
    /\ membership_values = <<>>
    /\ shape = NoShape
    /\ x = Num(0)
    /\ degree = Num(0)

\* add_rule with a check of the consequent against the declared output variables
add_rule_validating ==
    \E r \in SysRules :
        /\ Len(rules) < MaxRules
        /\ IF DOMAIN r.consequent \subseteq DOMAIN output_variables
           THEN rules' = Append(rules, r) /\ error' = "none"
           ELSE rules' = rules /\ error' = "ConfigurationError"
        /\ last_call' = "add_rule"
        /\ UNCHANGED <<input_variables, output_variables, evalVars, ruleVars, setVars, calls, serviceVars>>

add_rule ==
    \E r \in SysRules :
        /\ Len(rules) < MaxRules
        /\ rules' = Append(rules, r)
        /\ error' = "none"
        /\ last_call' = "add_rule"
        /\ UNCHANGED <<input_variables, output_variables, evalVars, ruleVars, setVars, calls, serviceVars>>

evaluate ==
    \E ins \in SysInputs :
        /\ MamdaniEvaluate(ins)
        /\ last_call' = "evaluate"
        /\ UNCHANGED <<modelVars, score, rule, rule_output, setVars, calls, serviceVars>>

Next == add_rule \/ evaluate

Spec == SysInit /\ [][Next]_vars

----
(* Properties of MamdaniFuzzySystem.evaluate, checked under Spec *)

\* the last call was an evaluate that got as far as the aggregated strengths
Aggregated == last_call = "evaluate" /\ error \in {"none", "KeyError"}

\* the last call was an evaluate that returned
Returned == last_call = "evaluate" /\ error = "none"

\* the firing strength of rule number i on the inputs of the last call
Firing(i) == firing_strength(rules[i].antecedent, rules[i].weight, fuzzified_inputs)

\* the rules whose consequent maps the output variable to the set
Naming(out_var, set_name) ==
    {i \in 1..Len(rules) :
        out_var \in DOMAIN rules[i].consequent /\ rules[i].consequent[out_var] = set_name}

\* C4: after evaluate has processed all rules, the aggregated strength of
\* every set of every output variable is the greatest of 0.0 and the firing
\* strengths of the rules naming that set; it is 0.0 for a set no rule names.
C4_MaxAggregation ==
    Aggregated =>
        \A out_var \in DOMAIN output_variables :
            \A set_name \in DOMAIN output_variables[out_var].sets :
                LET strengths == {Num(0)} \cup {Firing(i) : i \in Naming(out_var, set_name)}
                    aggregated == aggregated_outputs[out_var][set_name]
                IN  /\ aggregated \in strengths
                    /\ \A strength \in strengths : Le(strength, aggregated)
                    /\ Naming(out_var, set_name) = {} => aggregated = Num(0)

\* two rules name Z.lo, the first fires more strongly than the second
C4_Witness ==
    /\ Returned
    /\ Naming("Z", "lo") = {1, 2}
    /\ Lt(Num(0), Firing(2))
    /\ Lt(Firing(2), Firing(1))
    /\ aggregated_outputs["Z"]["lo"] = Firing(1)
    /\ aggregated_outputs["Z"]["mid"] = Num(0)

\* the aggregated curve of an output variable at sample i, restated: the
\* greatest of 0 and, for each set of strength > 0, the lesser of the set's
\* stored degree at i and that strength
CurveAt(out_var, i) ==
    LET var_sets == aggregated_outputs[out_var]
        truncated == {IF Le(output_variables[out_var].sets[s][i], var_sets[s])
                      THEN output_variables[out_var].sets[s][i]
                      ELSE var_sets[s] :
                         s \in {n \in DOMAIN var_sets : var_sets[n][1] > 0}}
    IN  CHOOSE v \in truncated \cup {Num(0)} : \A w \in truncated \cup {Num(0)} : Le(w, v)

\* sum of CurveAt over the first n samples
RECURSIVE CurveSum(_, _)
CurveSum(out_var, n) ==
    IF n = 0 THEN Num(0) ELSE Add(CurveSum(out_var, n - 1), CurveAt(out_var, n))

\* sum of universe[i] * CurveAt over the first n samples
RECURSIVE CurveMoment(_, _)
CurveMoment(out_var, n) ==
    IF n = 0 THEN Num(0)
    ELSE Add(CurveMoment(out_var, n - 1),
             Mul(output_variables[out_var].universe[n], CurveAt(out_var, n)))

Samples(out_var) == Len(output_variables[out_var].universe)

\* C5: whenever the aggregated curve has a positive sum, evaluate returns
\* sum(universe[i] * agg[i]) / sum(agg[i]) for the output variable.
C5_Centroid ==
    Returned =>
        \A out_var \in DOMAIN output_variables :
            Lt(Num(0), CurveSum(out_var, Samples(out_var))) =>
                /\ IsNumber(crisp_outputs[out_var])
                /\ Mul(crisp_outputs[out_var], CurveSum(out_var, Samples(out_var)))
                       = CurveMoment(out_var, Samples(out_var))

\* two sets of Z fired with different strengths
C5_Witness ==
    /\ Returned
    /\ Lt(Num(0), aggregated_outputs["Z"]["lo"])
    /\ Lt(aggregated_outputs["Z"]["lo"], aggregated_outputs["Z"]["hi"])
    /\ Lt(aggregated_outputs["Z"]["hi"], Num(1))
    /\ Lt(Num(0), CurveSum("Z", Samples("Z")))

\* C6: when the aggregated curve of an output variable sums to 0, as it does
\* when every rule has firing strength 0, evaluate returns the midpoint
\* (min+max)/2 of the universe and divides nothing by zero.
C6_MidpointFallback ==
    Returned =>
        \A out_var \in DOMAIN output_variables :
            LET u == output_variables[out_var].universe
            IN  /\ IsNumber(crisp_outputs[out_var])
                /\ CurveSum(out_var, Samples(out_var)) = Num(0) =>
                       Add(crisp_outputs[out_var], crisp_outputs[out_var]) = Add(u[1], u[Len(u)])
                /\ (\A i \in 1..Len(rules) : Firing(i) = Num(0)) =>
                       Add(crisp_outputs[out_var], crisp_outputs[out_var]) = Add(u[1], u[Len(u)])

\* a rule base of two rules, none of which fires
C6_Witness ==
    /\ Returned
    /\ Len(rules) = 2
    /\ Terms(rules[1].antecedent) # {}
    /\ \A i \in 1..Len(rules) : Firing(i) = Num(0)
    /\ crisp_outputs["Z"] = Frac(UMax, 2)

\* what the last evaluate call returned or raised
Outcome == [error |-> error, crisp_outputs |-> crisp_outputs]

\* the universe bound nearest to a crisp value, the value itself inside the range
Clamp(variable, v) ==
    LET u == variable.universe
    IN  IF Lt(v, u[1]) THEN u[1] ELSE IF Lt(u[Len(u)], v) THEN u[Len(u)] ELSE v

Clamped(in_vars, ins) ==
    [n \in DOMAIN ins |-> IF n \in DOMAIN in_vars THEN Clamp(in_vars[n], ins[n]) ELSE ins[n]]

OutOfRange(in_vars, ins) ==
    {n \in DOMAIN ins \cap DOMAIN in_vars : Clamp(in_vars[n], ins[n]) # ins[n]}

\* C11: evaluate does not reject an input value outside the variable's range:
\* it ends as the call with that value replaced by the nearest universe bound
\* ends, with the same outputs and with no error that call does not raise.
C11_OutOfRangeAsNearestBound ==
    last_call = "evaluate" =>
        Outcome = EvaluateOutcome(input_variables, output_variables, rules,
                                  Clamped(input_variables, inputs))

\* X above its range, Y below its range, and a rule fired
C11_Witness ==
    /\ Returned
    /\ OutOfRange(input_variables, inputs) = {"X", "Y"}
    /\ Lt(Num(UMax), inputs["X"])
    /\ Lt(inputs["Y"], Num(0))
    /\ \E i \in 1..Len(rules) : Lt(Num(0), Firing(i))
    /\ crisp_outputs["Z"] # Frac(UMax, 2)

\* the entries of an input mapping that name a declared input variable
Known(in_vars, ins) == [n \in DOMAIN ins \cap DOMAIN in_vars |-> ins[n]]

\* C13: the entries of the input mapping that name no declared input variable
\* are ignored: nothing is fuzzified for them, no error comes of them and the
\* call ends as the call without those entries ends.
C13_UnknownInputsIgnored ==
    last_call = "evaluate" =>
        /\ DOMAIN fuzzified_inputs = DOMAIN inputs \cap DOMAIN input_variables
        /\ \A n \in DOMAIN fuzzified_inputs :
               fuzzified_inputs[n] = fuzzify(input_variables[n], inputs[n])
        /\ Outcome = EvaluateOutcome(input_variables, output_variables, rules,
                                     Known(input_variables, inputs))

\* an input mapping with the unknown name "Q", and a rule on X fired
C13_Witness ==
    /\ Returned
    /\ "Q" \in DOMAIN inputs
    /\ "Q" \notin DOMAIN input_variables
    /\ DOMAIN fuzzified_inputs = {"X"}
    /\ \E i \in 1..Len(rules) : Lt(Num(0), Firing(i))

\* the aggregated strengths that evaluate(ins) computes with the rule list rs
AggregatedStrengths(rs, ins) ==
    Aggregate(InitialAggregate(output_variables), rs, 1,
              Fuzzification(input_variables, ins))

\* no rule of the list makes the rule loop raise
Runs(rs) == \A i \in 1..Len(rs) : ~RuleRaises(rs[i].antecedent)

\* C14: add_rule never lowers an aggregated strength: for every input mapping
\* and every set of every output variable, the strength computed with the
\* extended rule list is at least the one computed with the list before.
C14_AddRuleNeverLowers ==
    [][(rules' # rules /\ Runs(rules')) =>
          \A ins \in SysInputs :
              \A before \in {AggregatedStrengths(rules, ins)} :
                  \A after \in {AggregatedStrengths(rules', ins)} :
                      \A out_var \in DOMAIN before :
                          \A set_name \in DOMAIN before[out_var] :
                              /\ set_name \in DOMAIN after[out_var]
                              /\ Le(before[out_var][set_name], after[out_var][set_name])]_vars

\* a second rule was added that raises the strength of Z.lo for some input
\* and leaves a positive strength of Z.hi as it was
C14_Witness ==
    /\ last_call = "add_rule"
    /\ Len(rules) = 2
    /\ Runs(rules)
    /\ \E ins \in SysInputs :
           LET before == AggregatedStrengths(SubSeq(rules, 1, 1), ins)
               after == AggregatedStrengths(rules, ins)
           IN  /\ Lt(before["Z"]["lo"], after["Z"]["lo"])
               /\ Lt(Num(0), before["Z"]["hi"])
               /\ before["Z"]["hi"] = after["Z"]["hi"]

\* the rule list in every order
RuleOrders(rs) ==
    {[i \in 1..Len(rs) |-> rs[p[i]]] :
        p \in {q \in [1..Len(rs) -> 1..Len(rs)] :
                  \A i, j \in 1..Len(rs) : q[i] = q[j] => i = j}}

\* C15: the result of evaluate does not depend on the order of the rules: the
\* call ends the same way, with the same outputs, for every permutation of
\* the rule list.
C15_RuleOrderIrrelevant ==
    last_call = "evaluate" =>
        \A permuted \in RuleOrders(rules) :
            EvaluateOutcome(input_variables, output_variables, permuted, inputs) = Outcome

\* two different rules name Z.lo, the second fires more strongly than the first
C15_Witness ==
    /\ Returned
    /\ Naming("Z", "lo") = {1, 2}
    /\ Lt(Num(0), Firing(1))
    /\ Lt(Firing(1), Firing(2))
    /\ aggregated_outputs["Z"]["lo"] = Firing(2)

\* the output variables that the consequent of a rule names without their
\* having been declared
Undeclared(r) == DOMAIN r.consequent \ DOMAIN output_variables

\* a rule with its consequent cut down to the declared output variables
Declared(r) ==
    FuzzyRule(r.antecedent,
              [v \in DOMAIN r.consequent \cap DOMAIN output_variables |-> r.consequent[v]],
              r.weight)

InvalidOperator ==
    {i \in 1..Len(rules) :
        /\ "op" \in DOMAIN rules[i].antecedent
        /\ rules[i].antecedent["op"] \notin {"AND", "OR", "and", "or"}}

C27_CrispOutputWithinUniverse ==
    Returned =>
        \A var_name \in DOMAIN crisp_outputs :
            /\ IsNumber(crisp_outputs[var_name])
            /\ Le(output_variables[var_name].universe[1], crisp_outputs[var_name])
            /\ Le(crisp_outputs[var_name], output_variables[var_name].universe[NumPoints])

\* a centroid above the middle of the universe, pulled there by a rule whose
\* weight lifts its firing strength above 1
C27_Witness ==
    /\ Returned
    /\ \E i \in 1..Len(rules) : Lt(Num(1), rules[i].weight) /\ Lt(Num(1), Firing(i))
    /\ Lt(Div(Num(UMax), Num(2)), crisp_outputs["Z"])

\* the rules whose consequent names, on a declared output variable, a set
\* that the variable does not define, with the variable and the set name
UndefinedSets ==
    {<<i, var_name>> \in (1..Len(rules)) \X DOMAIN output_variables :
        /\ var_name \in DOMAIN rules[i].consequent
        /\ rules[i].consequent[var_name] \notin DOMAIN output_variables[var_name].sets}

\* the aggregated strength recorded for the set that rule i names on var_name
Recorded(i, var_name) ==
    Get(Get(aggregated_outputs, var_name, EmptyDict), rules[i].consequent[var_name], Num(0))

\* C28: add_rule accepts a rule whose consequent names a set that is not
\* defined on a declared output variable; an evaluate that gets through the
\* rule loop raises KeyError exactly when the aggregated strength recorded
\* for such a set name is greater than 0, and returns otherwise.
C28_UndefinedSetRaisesWhenFired ==
    /\ (last_call = "add_rule" /\ \E p \in UndefinedSets : p[1] = Len(rules))
            => error = "none"
    /\ (last_call = "evaluate" /\ error # "ValueError") =>
            /\ error = "KeyError" <=> \E p \in UndefinedSets : Lt(Num(0), Recorded(p[1], p[2]))
            /\ error = "none" <=> \A p \in UndefinedSets : Recorded(p[1], p[2]) = Num(0)

\* a rule names the undefined set "top" of Z, and an evaluate raised
\* KeyError with a positive strength recorded for it
C28_Witness ==
    /\ last_call = "evaluate"
    /\ UndefinedSets # {}
    /\ error = "KeyError"
    /\ Lt(Num(0), aggregated_outputs["Z"]["top"])

----
(* Specification of concurrent callers of evaluate on one built system.    *)
(* A call is the frame of one invocation of MamdaniFuzzySystem.evaluate:    *)
(* its position and its locals.  A step of a call is the fuzzification     *)
(* with the initialisation of the strengths, one pass of the rule loop, or  *)
(* the defuzzification; the steps of different callers interleave freely.   *)

Callers == 1..MaxCallers

\* a caller that has not called evaluate yet
IdleCall ==
    [pc |-> "idle", inputs |-> EmptyDict, fuzzified_inputs |-> EmptyDict,
     aggregated_outputs |-> EmptyDict, next_rule |-> 1, crisp_outputs |-> EmptyDict,
     error |-> "none", overlapped |-> FALSE, calls_made |-> 0]

\* add_output_variable("Z", ...) with three sets
CallOutputVariables ==
    "Z" :> FuzzyVariable(Num(0), Num(UMax), NumPoints,
                         ("lo" :> SetLo @@ "mid" :> SetMid @@ "hi" :> SetHi))

\* the rule lists of the built system: two rules that fire on some inputs and
\* not on others, or a rule followed by one with an unknown operation
CallRuleBases ==
    { << FuzzyRule(("X" :> "lo" @@ "Y" :> "lo" @@ "op" :> "AND"), ("Z" :> "lo"), Num(1)),
         FuzzyRule(("X" :> "hi"), ("Z" :> "hi"), Frac(1, 2)) >>,
      << FuzzyRule(("X" :> "hi" @@ "Y" :> "hi" @@ "op" :> "OR"), ("Z" :> "hi"), Num(1)),
         FuzzyRule(("X" :> "lo" @@ "op" :> "xor"), ("Z" :> "lo"), Num(1)) >> }

\* the input mappings of the calls: one on which no rule of the first rule
\* list fires, and one on which its second rule fires
CallInputs ==
    { ("X" :> Num(-1)), ("X" :> Num(Step + 1) @@ "Y" :> Num(UMax + 1)) }

CallsInit ==
    /\ input_variables = SysInputVariables
    /\ output_variables = CallOutputVariables
    /\ rules \in CallRuleBases
    /\ calls = [c \in Callers |-> IdleCall]
    /\ ServiceIdle
    /\ inputs = EmptyDict
    /\ aggregated_outputs = EmptyDict
    /\ crisp_outputs = EmptyDict
    /\ score = Num(0)
    /\ RuleIdle
    /\ error = "none"
    /\ last_call = "__init__"
    /\ universe = <<>>
    /\ membership_values = <<>>
    /\ shape = NoShape
    /\ x = Num(0)
    /\ degree = Num(0)

\* the frames after caller c has taken a step that leaves its frame as given:
\* a call in progress of another caller has now overlapped with it
StepOf(c, frame) ==
    [d \in Callers |->
        IF d = c THEN frame
        ELSE IF calls[d].pc = "rules" THEN [calls[d] EXCEPT !.overlapped = TRUE]
        ELSE calls[d]]

\* the call is over: it returned its outputs or raised
Finished(c) == calls[c].pc \in {"returned", "raised"}

\* the fuzzification with strengths that are kept from the caller's call
\* before, as an attribute set up once would be
BeginEvaluate_keeping(c, ins) ==
    /\ calls[c].pc \in {"idle", "returned", "raised"}
    /\ calls[c].calls_made < MaxCallsEach
    /\ calls' = StepOf(c,
           [pc |-> "rules", inputs |-> ins,
            fuzzified_inputs |-> Fuzzification(input_variables, ins),
            aggregated_outputs |-> IF calls[c].aggregated_outputs # EmptyDict
                                   THEN calls[c].aggregated_outputs
                                   ELSE InitialAggregate(output_variables),
            next_rule |-> 1, crisp_outputs |-> EmptyDict, error |-> "none",
            overlapped |-> \E d \in Callers \ {c} : calls[d].pc = "rules",
            calls_made |-> calls[c].calls_made + 1])
    /\ last_call' = "evaluate"
    /\ UNCHANGED <<modelVars, evalVars, ruleVars, setVars, error, serviceVars>>

\* evaluate(ins) is entered: the fuzzification step and the initialisation of
\* the aggregated strengths, in fresh dicts of the call
BeginEvaluate(c, ins) ==
    /\ calls[c].pc \in {"idle", "returned", "raised"}
    /\ calls[c].calls_made < MaxCallsEach
    /\ calls' = StepOf(c,
           [pc |-> "rules", inputs |-> ins,
            fuzzified_inputs |-> Fuzzification(input_variables, ins),
            aggregated_outputs |-> InitialAggregate(output_variables),
            next_rule |-> 1, crisp_outputs |-> EmptyDict, error |-> "none",
            overlapped |-> \E d \in Callers \ {c} : calls[d].pc = "rules",
            calls_made |-> calls[c].calls_made + 1])
    /\ last_call' = "evaluate"
    /\ UNCHANGED <<modelVars, evalVars, ruleVars, setVars, error, serviceVars>>

\* one pass of the rule loop on strengths that all callers share, as an
\* attribute of the system would be
EvaluateRule_shared(c) ==
    /\ calls[c].pc = "rules"
    /\ calls[c].next_rule <= Len(rules)
    /\ IF RuleRaises(rules[calls[c].next_rule].antecedent)
       THEN calls' = StepOf(c, [calls[c] EXCEPT !.pc = "raised", !.error = "ValueError"])
       ELSE \E aggregated \in {AggregateRule(calls[1].aggregated_outputs,
                                             rules[calls[c].next_rule],
                                             calls[c].fuzzified_inputs)} :
                calls' = [d \in Callers |->
                             [StepOf(c, [calls[c] EXCEPT !.next_rule = @ + 1])[d]
                                 EXCEPT !.aggregated_outputs = aggregated]]
    /\ last_call' = "evaluate"
    /\ UNCHANGED <<modelVars, evalVars, ruleVars, setVars, error, serviceVars>>

\* one pass of the rule loop: rule.evaluate on the call's fuzzified inputs,
\* folded into the call's aggregated strengths
EvaluateRule(c) ==
    /\ calls[c].pc = "rules"
    /\ calls[c].next_rule <= Len(rules)
    /\ IF RuleRaises(rules[calls[c].next_rule].antecedent)
       THEN calls' = StepOf(c, [calls[c] EXCEPT !.pc = "raised", !.error = "ValueError"])
       ELSE calls' = StepOf(c,
                [calls[c] EXCEPT
                    !.aggregated_outputs = AggregateRule(calls[c].aggregated_outputs,
                                                         rules[calls[c].next_rule],
                                                         calls[c].fuzzified_inputs),
                    !.next_rule = @ + 1])
    /\ last_call' = "evaluate"
    /\ UNCHANGED <<modelVars, evalVars, ruleVars, setVars, error, serviceVars>>

\* the stored curves of an output variable cut off at the aggregated strengths
TruncatedSets(output_var, var_sets) ==
    [set_name \in DOMAIN output_var.sets |->
        IF set_name \in Fired(var_sets)
        THEN [i \in 1..Len(output_var.universe) |->
                 Min(output_var.sets[set_name][i], var_sets[set_name])]
        ELSE output_var.sets[set_name]]

\* the defuzzification with the truncation written into the stored
\* membership_values, as np.minimum(..., out=membership_values) would
DefuzzifyOutputs_inplace(c) ==
    /\ calls[c].pc = "rules"
    /\ calls[c].next_rule > Len(rules)
    /\ IF LookupRaises(output_variables, calls[c].aggregated_outputs)
       THEN /\ calls' = StepOf(c, [calls[c] EXCEPT !.pc = "raised", !.error = "KeyError"])
            /\ output_variables' = output_variables
       ELSE /\ calls' = StepOf(c,
                    [calls[c] EXCEPT
                        !.crisp_outputs = Defuzzification(output_variables,
                                                          calls[c].aggregated_outputs),
                        !.pc = "returned"])
            /\ output_variables' =
                   [var_name \in DOMAIN output_variables |->
                       [output_variables[var_name] EXCEPT
                           !.sets = TruncatedSets(output_variables[var_name],
                                                  calls[c].aggregated_outputs[var_name])]]
    /\ last_call' = "evaluate"
    /\ UNCHANGED <<input_variables, rules, evalVars, ruleVars, setVars, error, serviceVars>>

\* the rule loop is over: the defuzzification step and the return; the
\* truncated and the aggregated curves are new arrays of the call
DefuzzifyOutputs(c) ==
    /\ calls[c].pc = "rules"
    /\ calls[c].next_rule > Len(rules)
    /\ IF LookupRaises(output_variables, calls[c].aggregated_outputs)
       THEN calls' = StepOf(c, [calls[c] EXCEPT !.pc = "raised", !.error = "KeyError"])
       ELSE calls' = StepOf(c,
                [calls[c] EXCEPT
                    !.crisp_outputs = Defuzzification(output_variables,
                                                      calls[c].aggregated_outputs),
                    !.pc = "returned"])
    /\ last_call' = "evaluate"
    /\ UNCHANGED <<modelVars, evalVars, ruleVars, setVars, error, serviceVars>>

CallsNext ==
    \E c \in Callers :
        \/ \E ins \in CallInputs : BeginEvaluate(c, ins)
        \/ EvaluateRule(c)
        \/ DefuzzifyOutputs(c)

SpecCalls == CallsInit /\ [][CallsNext]_vars

----
(* Properties of evaluate calls on one system, checked under SpecCalls *)

\* what the call of caller c returned or raised
CallOutcome(c) == [error |-> calls[c].error, crisp_outputs |-> calls[c].crisp_outputs]

\* C16: calls of evaluate with identical inputs on the unmodified system end
\* identically, with the same outputs or the same error, whatever calls were
\* made before them and between them.
C16_RepeatedCallsAgree ==
    \A c, d \in Callers :
        (Finished(c) /\ Finished(d) /\ calls[c].inputs = calls[d].inputs) =>
            CallOutcome(c) = CallOutcome(d)

\* the caller 1 made one call, the caller 2 made a call and then one with the
\* inputs of caller 1; no two of the calls overlapped, and rules have fired
C16_Witness ==
    /\ calls[1].pc = "returned" /\ calls[2].pc = "returned"
    /\ calls[1].calls_made = 1 /\ calls[2].calls_made = 2
    /\ ~calls[1].overlapped /\ ~calls[2].overlapped
    /\ calls[1].inputs = calls[2].inputs
    /\ calls[1].crisp_outputs = calls[2].crisp_outputs
    /\ \E set_name \in DOMAIN calls[2].aggregated_outputs["Z"] :
           Lt(Num(0), calls[2].aggregated_outputs["Z"][set_name])

\* C17: evaluate leaves the model unchanged: no step of any call changes the
\* input variables, the output variables, their universes and stored
\* membership values, or the rule list and its rules.
C17_EvaluateLeavesModel ==
    [][/\ input_variables' = input_variables
       /\ output_variables' = output_variables
       /\ rules' = rules]_vars

\* a call returned the midpoint fallback, another returned after rules fired,
\* and the system is as it was built
C17_Witness ==
    /\ calls[1].pc = "returned"
    /\ \A set_name \in DOMAIN calls[1].aggregated_outputs["Z"] :
           calls[1].aggregated_outputs["Z"][set_name] = Num(0)
    /\ calls[1].crisp_outputs["Z"] = Frac(UMax, 2)
    /\ calls[2].pc = "returned"
    /\ calls[2].crisp_outputs["Z"] # Frac(UMax, 2)
    /\ input_variables = SysInputVariables
    /\ output_variables = CallOutputVariables
    /\ rules \in CallRuleBases

\* C18: under every interleaving of the steps of concurrent calls, with no
\* lock taken, each call ends as it ends when it runs alone on the system.
C18_ConcurrentCallsAsAlone ==
    \A c \in Callers :
        Finished(c) =>
            CallOutcome(c) = EvaluateOutcome(input_variables, output_variables, rules,
                                             calls[c].inputs)

\* two calls with different inputs overlapped and returned different outputs
C18_Witness ==
    /\ calls[1].pc = "returned" /\ calls[2].pc = "returned"
    /\ calls[1].overlapped /\ calls[2].overlapped
    /\ calls[1].inputs # calls[2].inputs
    /\ calls[1].crisp_outputs # calls[2].crisp_outputs

----
(* CustomEventFuzzySystem: the domain adapter *)

\* num_points=100 of add_input_variable and add_output_variable
DefaultNumPoints == 100

EventUniverse == linspace(Num(0), Num(100), DefaultNumPoints)

EventSet(a, b, c) == triangular(EventUniverse, Num(a), Num(b), Num(c))

EventVariable(sets) == FuzzyVariable(Num(0), Num(100), DefaultNumPoints, sets)

\* __init__ and _define_fuzzy_sets: the four input variables
EventInputVariables ==
    "interest_match" :> EventVariable("low" :> EventSet(0, 0, 40)
                                      @@ "medium" :> EventSet(20, 50, 80)
                                      @@ "high" :> EventSet(60, 100, 100))
    @@ "location_proximity" :> EventVariable("far" :> EventSet(0, 0, 40)
                                             @@ "moderate" :> EventSet(20, 50, 80)
                                             @@ "near" :> EventSet(60, 100, 100))
    @@ "time_overlap" :> EventVariable("no_overlap" :> EventSet(0, 0, 30)
                                       @@ "partial" :> EventSet(20, 50, 80)
                                       @@ "complete" :> EventSet(70, 100, 100))
    @@ "budget_alignment" :> EventVariable("over_budget" :> EventSet(0, 0, 30)
                                           @@ "at_limit" :> EventSet(20, 50, 80)
                                           @@ "within_budget" :> EventSet(70, 100, 100))

\* __init__ and _define_fuzzy_sets: the output variable
EventOutputVariables ==
    "recommendation" :> EventVariable("low" :> EventSet(0, 15, 30)
                                      @@ "medium" :> EventSet(20, 45, 70)
                                      @@ "high" :> EventSet(60, 80, 100))

\* a rule over all four input variables, combined with AND, weight 1.0
EventRule(interest, proximity, overlap, budget, recommendation) ==
    FuzzyRule("interest_match" :> interest @@ "location_proximity" :> proximity
              @@ "time_overlap" :> overlap @@ "budget_alignment" :> budget
              @@ "op" :> "AND",
              "recommendation" :> recommendation, Num(1))

\* _define_rules
EventRules ==
    << EventRule("high", "near", "complete", "within_budget", "high"),
       EventRule("high", "near", "complete", "at_limit", "high"),
       EventRule("high", "near", "partial", "within_budget", "high"),
       EventRule("medium", "near", "complete", "within_budget", "high"),
       EventRule("high", "moderate", "partial", "within_budget", "medium"),
       EventRule("medium", "moderate", "partial", "at_limit", "medium"),
       FuzzyRule("interest_match" :> "low" @@ "op" :> "OR",
                 "recommendation" :> "low", Num(1)),
       FuzzyRule("time_overlap" :> "no_overlap" @@ "op" :> "OR",
                 "recommendation" :> "low", Num(1)),
       FuzzyRule("budget_alignment" :> "over_budget" @@ "op" :> "OR",
                 "recommendation" :> "low", Num(1)),
       FuzzyRule("interest_match" :> "low" @@ "location_proximity" :> "far" @@ "op" :> "AND",
                 "recommendation" :> "low", Num(1)),
       EventRule("medium", "moderate", "partial", "within_budget", "medium"),
       EventRule("high", "far", "partial", "within_budget", "medium") >>

\* the scores that the adapter is asked to evaluate: the ends of the range
\* and a value near the upper end, for the interest also one near the lower end
EventScores == {Num(0), Num(90), Num(100)}

InterestScores == EventScores \cup {Num(10)}

AdapterInit ==
    /\ input_variables = EventInputVariables
    /\ output_variables = EventOutputVariables
    /\ rules = EventRules
    /\ inputs = EmptyDict
    /\ aggregated_outputs = EmptyDict
    /\ crisp_outputs = EmptyDict
    /\ score = Num(0)
    /\ RuleIdle
    /\ error = "none"
    /\ last_call = "__init__"
    /\ calls = <<>>
    /\ ServiceIdle
    /\ universe = <<>>
    /\ membership_values = <<>>
    /\ shape = NoShape
    /\ x = Num(0)
    /\ degree = Num(0)

\* CustomEventFuzzySystem.evaluate(interest, proximity, time_overlap, budget)
CustomEvaluate ==
    \E interest \in InterestScores, proximity, time_overlap, budget \in EventScores :
        /\ MamdaniEvaluate("interest_match" :> interest @@ "location_proximity" :> proximity
                           @@ "time_overlap" :> time_overlap @@ "budget_alignment" :> budget)
        /\ score' = Get(crisp_outputs', "recommendation", Num(50))
        /\ last_call' = "CustomEventFuzzySystem.evaluate"
        /\ UNCHANGED <<modelVars, rule, rule_output, setVars, calls, serviceVars>>

AdapterNext == CustomEvaluate

SpecAdapter == AdapterInit /\ [][AdapterNext]_vars

\* the adapter was asked for the score of four equal inputs
AskedAll(value) ==
    /\ last_call = "CustomEventFuzzySystem.evaluate"
    /\ \A var_name \in DOMAIN inputs : inputs[var_name] = Num(value)

\* C1: evaluate(100, 100, 100, 100) returns a score strictly greater than 70.
C1_AllHundredScoresHigh == AskedAll(100) => Lt(Num(70), score)

\* C2: evaluate(0, 0, 0, 0) returns a score strictly less than 30.
C2_AllZeroScoresLow == AskedAll(0) => Lt(score, Num(30))

----
(* Specification of one FuzzySet: construction, one shape call, queries *)

Params == {Num(p) : p \in -1..(UMax + 1)}

\* the trapezoids are built over the ends and the two inner quarters of this range
TrapParams == {Num(-1), Num(1), Num(Step), Num(UMax - 1), Num(UMax + 1)}

Crisp == {Frac(k, XDen) : k \in (-XDen)..((UMax + 1) * XDen)}

SetInit ==
    /\ RuleIdle
    /\ SystemIdle
    /\ error = "none"
    /\ universe = linspace(Num(0), Num(UMax), NumPoints)
    /\ membership_values = zeros_like(linspace(Num(0), Num(UMax), NumPoints))
    /\ shape = NoShape
    /\ x = Num(0)
    /\ degree = Num(0)
    /\ last_call = "__init__"
    /\ calls = <<>>
    /\ ServiceIdle

\* add_set creates the set and calls its shape constructor once
CallTriangular ==
    \E a, b, c \in Params :
        /\ shape = NoShape
        /\ membership_values' = triangular(universe, a, b, c)
        /\ shape' = [kind |-> "triangular", a |-> a, b |-> b, c |-> c]
        /\ last_call' = "triangular"
        /\ UNCHANGED <<universe, x, degree, ruleVars, modelVars, evalVars, error, calls, serviceVars>>

CallTrapezoidal ==
    \E a, b, c, d \in TrapParams :
        /\ shape = NoShape
        /\ membership_values' = trapezoidal(universe, a, b, c, d)
        /\ shape' = [kind |-> "trapezoidal", a |-> a, b |-> b, c |-> c, d |-> d]
        /\ last_call' = "trapezoidal"
        /\ UNCHANGED <<universe, x, degree, ruleVars, modelVars, evalVars, error, calls, serviceVars>>

CallMembership ==
    \E v \in Crisp :
        /\ x' = v
        /\ degree' = membership(universe, membership_values, v)
        /\ last_call' = "membership"
        /\ UNCHANGED <<universe, membership_values, shape, ruleVars, modelVars, evalVars, error, calls, serviceVars>>

SetNext == CallTriangular \/ CallTrapezoidal \/ CallMembership

SpecSet == SetInit /\ [][SetNext]_vars

----
(* Properties of FuzzySet, checked under SpecSet *)

IsSample(p) == \E i \in 1..Len(universe) : universe[i] = p

First == universe[1]

Last == universe[Len(universe)]

\* the last call asked a triangular(a,b,c) set with a < b < c for a degree
AskedTriangle ==
    /\ last_call = "membership"
    /\ shape.kind = "triangular"
    /\ Lt(shape.a, shape.b)
    /\ Lt(shape.b, shape.c)

\* C7 as stated: a triangular(a,b,c) set with a<b<c inside the universe
\* range has degree exactly 0 at a, 1 at b and 0 at c, whether or not a, b
\* and c are universe samples.
C7_CornersExactAnywhere ==
    (AskedTriangle /\ Le(First, shape.a) /\ Le(shape.c, Last)) =>
        /\ (x = shape.a => degree = Num(0))
        /\ (x = shape.b => degree = Num(1))
        /\ (x = shape.c => degree = Num(0))

\* C7 amended: the degree is exactly 0 at a, 1 at b and 0 at c for each of
\* these points that is a universe sample.
C7_CornersExactAtSamples ==
    (AskedTriangle /\ Le(First, shape.a) /\ Le(shape.c, Last)) =>
        /\ (x = shape.a /\ IsSample(shape.a) => degree = Num(0))
        /\ (x = shape.b /\ IsSample(shape.b) => degree = Num(1))
        /\ (x = shape.c /\ IsSample(shape.c) => degree = Num(0))

C7_Witness ==
    /\ AskedTriangle
    /\ Le(First, shape.a)
    /\ Le(shape.c, Last)
    /\ IsSample(shape.b)
    /\ ~IsSample(shape.a)
    /\ x = shape.b
    /\ degree = Num(1)

\* C8 as stated: for a triangular(a,b,c) set with a<b<c the degree is
\* non-decreasing over [a,b] and non-increasing over [b,c], for all crisp
\* values and not only the universe samples.
C8_MonotonicAnywhere ==
    AskedTriangle =>
        \A v \in Crisp :
            /\ (Le(shape.a, x) /\ Le(x, v) /\ Le(v, shape.b)) =>
                   Le(degree, membership(universe, membership_values, v))
            /\ (Le(shape.b, x) /\ Le(x, v) /\ Le(v, shape.c)) =>
                   Le(membership(universe, membership_values, v), degree)

\* C8 amended: the same, for a peak b that is a universe sample.
C8_MonotonicPeakAtSample ==
    (AskedTriangle /\ IsSample(shape.b)) =>
        \A v \in Crisp :
            /\ (Le(shape.a, x) /\ Le(x, v) /\ Le(v, shape.b)) =>
                   Le(degree, membership(universe, membership_values, v))
            /\ (Le(shape.b, x) /\ Le(x, v) /\ Le(v, shape.c)) =>
                   Le(membership(universe, membership_values, v), degree)

C8_Witness ==
    /\ AskedTriangle
    /\ IsSample(shape.b)
    /\ ~IsSample(shape.a)
    /\ ~IsSample(x)
    /\ Lt(shape.a, x)
    /\ Lt(x, shape.b)
    /\ Lt(Num(0), degree)
    /\ Lt(degree, Num(1))

\* C9: every stored membership value of a triangular or trapezoidal set is
\* in [0,1], and so is every degree that membership returns.
C9_DegreesInUnitInterval ==
    /\ \A i \in 1..Len(membership_values) : InUnit(membership_values[i])
    /\ last_call = "membership" => InUnit(degree)

C9_Witness ==
    /\ last_call = "membership"
    /\ shape.kind = "trapezoidal"
    /\ Lt(shape.a, shape.b)
    /\ Lt(shape.b, shape.c)
    /\ Lt(shape.c, shape.d)
    /\ ~IsSample(x)
    /\ Lt(Num(0), degree)
    /\ Lt(degree, Num(1))

\* C10: at or below the first universe sample membership returns the first
\* stored degree, at or above the last sample the last stored degree.
C10_FlatExtrapolation ==
    last_call = "membership" =>
        /\ (Le(x, First) => degree = membership_values[1])
        /\ (Le(Last, x) => degree = membership_values[Len(universe)])

\* below the first sample and below the foot a of a triangle, where the
\* triangle's formula gives 0 and the first sample stores a positive degree
C10_Witness ==
    /\ last_call = "membership"
    /\ shape.kind = "triangular"
    /\ Lt(x, First)
    /\ Le(x, shape.a)
    /\ Lt(Num(0), membership_values[1])
    /\ degree = membership_values[1]

\* the set was filled by triangular(a,b,c) with a zero-width side
DegenerateTriangle ==
    /\ shape.kind = "triangular"
    /\ \/ shape.a = shape.b /\ Lt(shape.b, shape.c)
       \/ Lt(shape.a, shape.b) /\ shape.b = shape.c

\* C24: for a triangular(a,b,c) with a==b<c or a<b==c the construction
\* divides nothing by zero and a universe sample equal to b gets the peak
\* degree 1, the zero-width side being a step at that value.
C24_DegenerateTriangleStepsToPeak ==
    DegenerateTriangle =>
        \A i \in 1..Len(universe) :
            /\ IsNumber(membership_values[i])
            /\ universe[i] = shape.b => membership_values[i] = Num(1)

\* the smallest index whose sample is >= the crisp value, restated over all
\* the samples before it
Bracket(v) ==
    CHOOSE i \in 1..Len(universe) :
        /\ Le(v, universe[i])
        /\ \A j \in 1..(i - 1) : Lt(universe[j], v)

\* C25: for x strictly between the first and the last sample, membership
\* brackets x by the smallest index idx whose sample is >= x and its
\* predecessor and returns y1 + (y2-y1)*(x-x1)/(x2-x1); idx is never the first
\* index, x2 > x1, and at a sample the result is the sample's stored degree.
C25_InterpolatesBracket ==
    (last_call = "membership" /\ Lt(First, x) /\ Lt(x, Last)) =>
        LET idx == Bracket(x)
            x1 == universe[idx - 1]
            x2 == universe[idx]
            y1 == membership_values[idx - 1]
            y2 == membership_values[idx]
        IN  /\ idx \in 2..Len(universe)
            /\ Lt(x1, x2)
            /\ IsNumber(degree)
            /\ Mul(Sub(degree, y1), Sub(x2, x1)) = Mul(Sub(y2, y1), Sub(x, x1))
            /\ \A i \in 1..Len(universe) : universe[i] = x => degree = membership_values[i]

\* a crisp value between two samples that store different degrees
C25_Witness ==
    /\ last_call = "membership"
    /\ Lt(First, x) /\ Lt(x, Last)
    /\ ~IsSample(x)
    /\ membership_values[Bracket(x) - 1] # membership_values[Bracket(x)]
    /\ degree # membership_values[Bracket(x) - 1]
    /\ degree # membership_values[Bracket(x)]

----
(* Specification of one FuzzyVariable: add_input_variable("v", 0, UMax),    *)
(* then add_set and fuzzify calls on the variable it returns.  shape holds  *)
(* the arguments of the last add_set call and, as history, the curve that   *)
(* the variable held under the name before the call.                        *)

SetNames == {"lo", "hi"}

\* the shape arguments add_set is called with; "sigmoid" and "Triangular"
\* are no shape tags of add_set, which compares the tag as spelled
SetShapes ==
    {[kind |-> k, a |-> Num(0), b |-> Num(Step), c |-> Num(2 * Step)] :
        k \in {"triangular", "Triangular"}}
    \cup {[kind |-> "trapezoidal", a |-> Num(-1), b |-> Num(0), c |-> Num(Step), d |-> Num(UMax)]}
    \cup {[kind |-> "gaussian", mean |-> Num(Step), sigma |-> Num(sg)] : sg \in {-1, 0, 1}}
    \cup {[kind |-> "sigmoid", a |-> Num(1), c |-> Num(Step)]}

ShapeTags == {"triangular", "trapezoidal", "gaussian"}

\* the membership values the shape constructor stores for the arguments
ShapeCurve(u, sh) ==
    CASE sh.kind = "triangular" -> triangular(u, sh.a, sh.b, sh.c)
      [] sh.kind = "trapezoidal" -> trapezoidal(u, sh.a, sh.b, sh.c, sh.d)
      [] sh.kind = "gaussian" -> gaussian(u, sh.mean, sh.sigma)
      [] OTHER -> zeros_like(u)

\* add_set storing the new set before the shape tag is looked at
AddSet_registering(variable, name, sh) ==
    [variable |-> [variable EXCEPT !.sets = Put(variable.sets, name, ShapeCurve(variable.universe, sh))],
     error |-> IF sh.kind \in ShapeTags THEN "none" ELSE "ValueError"]

\* add_set keeping the set a name already has
AddSet_first_wins(variable, name, sh) ==
    IF sh.kind \notin ShapeTags
    THEN [variable |-> variable, error |-> "ValueError"]
    ELSE [variable |-> [variable EXCEPT !.sets =
                            IF name \in DOMAIN variable.sets THEN variable.sets
                            ELSE Put(variable.sets, name, ShapeCurve(variable.universe, sh))],
          error |-> "none"]

\* FuzzyVariable.add_set(name, set_type, *params): the variable after the
\* call and the error the call raises
AddSet(variable, name, sh) ==
    IF sh.kind \notin ShapeTags
    THEN [variable |-> variable, error |-> "ValueError"]
    ELSE [variable |-> [variable EXCEPT !.sets = Put(variable.sets, name, ShapeCurve(variable.universe, sh))],
          error |-> "none"]

VarInit ==
    /\ RuleIdle
    /\ input_variables = ("v" :> FuzzyVariable(Num(0), Num(UMax), NumPoints, EmptyDict))
    /\ output_variables = EmptyDict
    /\ rules = <<>>
    /\ inputs = EmptyDict
    /\ aggregated_outputs = EmptyDict
    /\ crisp_outputs = EmptyDict
    /\ score = Num(0)
    /\ error = "none"
    /\ universe = <<>>
    /\ membership_values = <<>>
    /\ shape = NoShape
    /\ x = Num(0)
    /\ degree = Num(0)
    /\ last_call = "__init__"
    /\ calls = <<>>
    /\ ServiceIdle

add_set ==
    \E name \in SetNames, sh \in SetShapes :
        \E result \in {AddSet(input_variables["v"], name, sh)} :
            /\ input_variables' = ("v" :> result.variable)
            /\ error' = result.error
            /\ shape' = [args |-> sh, name |-> name,
                         previous |-> Get(input_variables["v"].sets, name, <<>>)]
            /\ last_call' = "add_set"
            /\ UNCHANGED <<universe, membership_values, x, degree, ruleVars,
                           output_variables, rules, evalVars, calls, serviceVars>>

CallFuzzify ==
    \E crisp_value \in {Num(Step + 1)} :
        /\ x' = crisp_value
        /\ fuzzified_inputs' = ("v" :> fuzzify(input_variables["v"], crisp_value))
        /\ error' = "none"
        /\ last_call' = "fuzzify"
        /\ UNCHANGED <<universe, membership_values, shape, degree, rule, rule_output,
                       modelVars, evalVars, calls, serviceVars>>

VarNext == add_set \/ CallFuzzify

SpecVariable == VarInit /\ [][VarNext]_vars

----
(* Properties of FuzzyVariable, checked under SpecVariable *)

\* the sets of the variable: name -> membership values
Sets == input_variables["v"].sets

\* C21: add_set of a gaussian with sigma <= 0 is rejected with an error and
\* stores no set.
C21_NonPositiveSigmaRejected ==
    (last_call = "add_set" /\ shape.args.kind = "gaussian" /\ Le(shape.args.sigma, Num(0))) =>
        /\ error # "none"
        /\ Get(Sets, shape.name, <<>>) = shape.previous

\* C22: add_set with a shape tag other than triangular, trapezoidal and
\* gaussian raises and leaves the mapping of the sets as it was, and no
\* fuzzify call raises afterwards.
C22_UnknownShapeRejectedAtBuild ==
    [][/\ (last_call' = "add_set" /\ shape'.args.kind \notin ShapeTags) =>
            /\ error' = "ValueError"
            /\ input_variables' = input_variables
       /\ (last_call' = "add_set" /\ shape'.args.kind \in ShapeTags) => error' = "none"
       /\ last_call' = "fuzzify" => error' = "none"]_vars

\* add_set("hi", "Triangular", ...) raised on a variable that holds "lo" only
C22_Witness ==
    /\ last_call = "add_set"
    /\ shape.args.kind = "Triangular"
    /\ shape.name = "hi"
    /\ error = "ValueError"
    /\ DOMAIN Sets = {"lo"}

\* C23: add_set under a name the variable already holds overwrites: the name
\* then maps to the curve of the latest call, every other set is as before,
\* and fuzzify returns one degree per set name, taken from the current curve.
C23_LastWriteWins ==
    [][/\ (last_call' = "add_set" /\ error' = "none") =>
            /\ DOMAIN Sets' = DOMAIN Sets \cup {shape'.name}
            /\ Sets'[shape'.name] = ShapeCurve(input_variables["v"].universe, shape'.args)
            /\ \A n \in DOMAIN Sets \ {shape'.name} : Sets'[n] = Sets[n]
       /\ last_call' = "fuzzify" =>
            /\ DOMAIN fuzzified_inputs'["v"] = DOMAIN Sets
            /\ \A n \in DOMAIN Sets :
                    fuzzified_inputs'["v"][n] =
                        membership(input_variables["v"].universe, Sets[n], x')]_vars

\* "lo" was overwritten by a different curve while "hi" is held as well
C23_Witness ==
    /\ last_call = "add_set"
    /\ error = "none"
    /\ shape.name = "lo"
    /\ shape.previous # <<>>
    /\ shape.previous # Sets["lo"]
    /\ DOMAIN Sets = {"lo", "hi"}

----
(* Specification of the RecommendationService: its UserPreferences, its    *)
(* events and the calls that update the preferences, edit the history and  *)
(* score the events.  The history holds references to events, modelled as  *)
(* their ids.  fuzzy_system is the scikit-fuzzy EventFuzzySystem; what is  *)
(* modelled of its call are the four arguments it is passed, kept with the *)
(* event as "passed".  The list get_recommended_events returns is a        *)
(* filtered and sorted copy that leaves the service as it is.              *)

DEFAULT_MAX_DISTANCE == 200

DEFAULT_MAX_BUDGET == 100

\* event.category is a string or a list of strings
Str(value) == [type |-> "str", value |-> value]

List(value) == [type |-> "list", value |-> value]

\* Event(id, ..., category, start_time, end_time, ..., cost) with the scores
\* __init__ stores; distance is what calculate_distance returns for the
\* user's location, times are hours of one day
Event(id, category, start_time, end_time, distance, cost) ==
    [id |-> id, category |-> category, start_time |-> start_time, end_time |-> end_time,
     distance |-> distance, cost |-> cost,
     scores_breakdown |-> ("interest_match" :> Num(0) @@ "location_proximity" :> Num(0)
                           @@ "time_overlap" :> Num(0) @@ "budget_alignment" :> Num(0)),
     passed |-> <<>>]

\* the events a service is given: a free event at the user's location, an
\* expensive far one with two categories and one that ends as it starts;
\* or an event whose category is an empty list before the first and the third
ServiceEvents ==
    { << Event(1, Str("Music"), 9, 11, Num(0), Num(0)),
         Event(2, List(<<"Music", "Art">>), 10, 16, Num(300), Num(150)),
         Event(3, Str("Sports"), 12, 12, Num(50), Num(50)) >>,
      << Event(4, List(<<>>), 15, 17, Num(250), Num(120)),
         Event(1, Str("Music"), 9, 11, Num(0), Num(0)),
         Event(3, Str("Sports"), 12, 12, Num(50), Num(50)) >> }

\* the events that are added to and removed from the history
HistoryEvents == {1, 3}

\* UserPreferences.__init__
UserPreferences ==
    [max_distance |-> Num(DEFAULT_MAX_DISTANCE), categories |-> EmptyDict,
     preferred_times |-> <<>>, max_budget |-> Num(DEFAULT_MAX_BUDGET),
     attended_events |-> <<>>]

\* the arguments of the update calls
CategoryWeights == {Num(0), Num(1)}

TimeRanges == {<<>>, << <<8, 12>>, <<10, 14>> >>}

Budgets == {Num(0), Num(DEFAULT_MAX_BUDGET)}

Distances == {Num(0), Num(DEFAULT_MAX_DISTANCE)}

ServiceInit ==
    /\ user_preferences = UserPreferences
    /\ events \in ServiceEvents
    /\ history_calls = [id \in HistoryEvents |-> "none"]
    /\ RuleIdle
    /\ SystemIdle
    /\ error = "none"
    /\ universe = <<>>
    /\ membership_values = <<>>
    /\ shape = NoShape
    /\ x = Num(0)
    /\ degree = Num(0)
    /\ last_call = "__init__"
    /\ calls = <<>>

\* the categories of an event as a list
CategoriesOf(event) ==
    IF event.category.type = "str" THEN <<event.category.value>> ELSE event.category.value

CategorySet(event) == {CategoriesOf(event)[i] : i \in 1..Len(CategoriesOf(event))}

\* get_interest_match_inputs divides by len(matched_scores), which is 0 for
\* an event without categories once a category preference is set
InterestRaises(preferences, event) ==
    /\ DOMAIN preferences.categories # {}
    /\ Len(CategoriesOf(event)) = 0

\* get_interest_match_inputs: the base score
match_score(preferences, event) ==
    IF DOMAIN preferences.categories = {} THEN Num(50)
    ELSE LET current == CategoriesOf(event)
             matched_scores ==
                 [i \in 1..Len(current) |->
                     IF current[i] \in DOMAIN preferences.categories
                     THEN Mul(preferences.categories[current[i]], Num(100))
                     ELSE Num(50)]
         IN  Div(sum(matched_scores), Num(Len(matched_scores)))

\* the categories of the attended events
AttendedCategories(preferences, evs) ==
    UNION {CategorySet(evs[i]) :
            i \in {j \in 1..Len(evs) :
                    \E k \in 1..Len(preferences.attended_events) :
                        preferences.attended_events[k] = evs[j].id}}

\* the history boost given for any non-empty history
boost_any_history(preferences, evs, event) ==
    IF Len(preferences.attended_events) > 0 THEN Num(10) ELSE Num(0)

\* get_interest_match_inputs: the history boost
boost(preferences, evs, event) ==
    IF /\ Len(preferences.attended_events) > 0
       /\ CategorySet(event) \cap AttendedCategories(preferences, evs) # {}
    THEN Num(10)
    ELSE Num(0)

\* max(0, min(100, score))
ClampScore(value) == Max(Num(0), Min(Num(100), value))

calculate_location_proximity_score(preferences, event) ==
    IF Le(preferences.max_distance, Num(0)) THEN Num(50)
    ELSE IF Le(event.distance, Num(0)) THEN Num(100)
    ELSE ClampScore(Mul(Num(100),
            Sub(Num(1), Min(Div(event.distance, preferences.max_distance), Num(1)))))

\* the seconds a preferred range shares with the event, as hours
Overlap(event, range) ==
    LET overlap_start == IF event.start_time > range[1] THEN event.start_time ELSE range[1]
        overlap_end == IF event.end_time < range[2] THEN event.end_time ELSE range[2]
    IN  IF overlap_end > overlap_start THEN Num(overlap_end - overlap_start) ELSE Num(0)

calculate_time_overlap_score(preferences, event) ==
    IF Len(preferences.preferred_times) = 0 THEN Num(50)
    ELSE IF event.end_time - event.start_time <= 0 THEN Num(0)
    ELSE LET total_overlap ==
                 sum([i \in 1..Len(preferences.preferred_times) |->
                        Overlap(event, preferences.preferred_times[i])])
         IN  ClampScore(Mul(Div(total_overlap, Num(event.end_time - event.start_time)),
                            Num(100)))

calculate_budget_alignment_score(preferences, event) ==
    IF Le(event.cost, Num(0)) THEN Num(100)
    ELSE IF Le(preferences.max_budget, Num(0)) THEN Num(0)
    ELSE IF Le(event.cost, preferences.max_budget)
    THEN ClampScore(Sub(Num(100), Mul(Div(event.cost, preferences.max_budget), Num(30))))
    ELSE ClampScore(Mul(Num(30),
            Sub(Num(1), Min(Div(Sub(event.cost, preferences.max_budget),
                                preferences.max_budget), Num(1)))))

\* one pass of the loop of get_recommended_events: the event with the scores
\* stored and the arguments passed to the fuzzy system
Scored(preferences, evs, event) ==
    LET interest_score == match_score(preferences, event)
        history_boost == boost(preferences, evs, event)
        proximity_score == calculate_location_proximity_score(preferences, event)
        time_score == calculate_time_overlap_score(preferences, event)
        budget_score == calculate_budget_alignment_score(preferences, event)
        interest_score_boosted == Min(Num(100), Add(interest_score, history_boost))
    IN  [event EXCEPT
            !.passed = <<interest_score_boosted, proximity_score, time_score, budget_score>>,
            !.scores_breakdown =
                ("interest_match" :> interest_score
                 @@ "interest_match_boosted" :> interest_score_boosted
                 @@ "location_proximity" :> proximity_score
                 @@ "time_overlap" :> time_score
                 @@ "budget_alignment" :> budget_score
                 @@ "history_boost" :> history_boost)]

\* the events before which the loop of get_recommended_events has raised
Unreached(preferences, evs) ==
    {i \in 1..Len(evs) : \E j \in 1..i : InterestRaises(preferences, evs[j])}

\* add_attended_event without the test for an event already held
add_attended_event_unchecked(attended_events, event) == Append(attended_events, event)

\* UserPreferences.add_attended_event; events are equal when their ids are
add_attended_event(attended_events, event) ==
    IF \E k \in 1..Len(attended_events) : attended_events[k] = event
    THEN attended_events
    ELSE Append(attended_events, event)

\* UserPreferences.remove_attended_event
remove_attended_event(attended_events, event_to_remove) ==
    SelectSeq(attended_events, LAMBDA e : e # event_to_remove)

update_location_preference ==
    \E max_distance \in Distances :
        /\ user_preferences' = [user_preferences EXCEPT !.max_distance = max_distance]
        /\ error' = "none"
        /\ last_call' = "update_location_preference"
        /\ UNCHANGED <<events, history_calls, setVars, ruleVars, modelVars, evalVars, calls>>

update_category_preference ==
    \E category \in {"Music"}, weight \in CategoryWeights, is_selected \in BOOLEAN :
        /\ user_preferences' =
            [user_preferences EXCEPT !.categories =
                IF is_selected THEN Put(@, category, weight)
                ELSE [c \in DOMAIN @ \ {category} |-> @[c]]]
        /\ error' = "none"
        /\ last_call' = "update_category_preference"
        /\ UNCHANGED <<events, history_calls, setVars, ruleVars, modelVars, evalVars, calls>>

update_time_preferences ==
    \E time_ranges \in TimeRanges :
        /\ user_preferences' = [user_preferences EXCEPT !.preferred_times = time_ranges]
        /\ error' = "none"
        /\ last_call' = "update_time_preferences"
        /\ UNCHANGED <<events, history_calls, setVars, ruleVars, modelVars, evalVars, calls>>

update_budget_preference ==
    \E max_budget \in Budgets :
        /\ user_preferences' = [user_preferences EXCEPT !.max_budget = max_budget]
        /\ error' = "none"
        /\ last_call' = "update_budget_preference"
        /\ UNCHANGED <<events, history_calls, setVars, ruleVars, modelVars, evalVars, calls>>

add_event_to_history ==
    \E event \in HistoryEvents :
        /\ user_preferences' =
            [user_preferences EXCEPT !.attended_events = add_attended_event(@, event)]
        /\ history_calls' = [history_calls EXCEPT ![event] = "add"]
        /\ error' = "none"
        /\ last_call' = "add_event_to_history"
        /\ UNCHANGED <<events, setVars, ruleVars, modelVars, evalVars, calls>>

remove_event_from_history ==
    \E event \in HistoryEvents :
        /\ user_preferences' =
            [user_preferences EXCEPT !.attended_events = remove_attended_event(@, event)]
        /\ history_calls' = [history_calls EXCEPT ![event] = "remove"]
        /\ error' = "none"
        /\ last_call' = "remove_event_from_history"
        /\ UNCHANGED <<events, setVars, ruleVars, modelVars, evalVars, calls>>

\* the loop scores the events in order and stops at the first one on which
\* get_interest_match_inputs raises; the events before it keep their new scores
get_recommended_events ==
    /\ events' = [i \in 1..Len(events) |->
                    IF i \in Unreached(user_preferences, events) THEN events[i]
                    ELSE Scored(user_preferences, events, events[i])]
    /\ error' = IF Unreached(user_preferences, events) # {} THEN "ZeroDivisionError" ELSE "none"
    /\ last_call' = "get_recommended_events"
    /\ UNCHANGED <<user_preferences, history_calls, setVars, ruleVars, modelVars, evalVars, calls>>

ServiceNext ==
    \/ update_location_preference
    \/ update_category_preference
    \/ update_time_preferences
    \/ update_budget_preference
    \/ add_event_to_history
    \/ remove_event_from_history
    \/ get_recommended_events

SpecService == ServiceInit /\ [][ServiceNext]_vars

----
(* Properties of the RecommendationService, checked under SpecService *)

\* the last call was get_recommended_events, so the preferences are those
\* the events were scored with
Recommended == last_call = "get_recommended_events"

\* the events the loop of that call got to
ScoredEvents == (1..Len(events)) \ Unreached(user_preferences, events)

\* some attended event has a category that event number i has as well
SharesCategory(i) ==
    \E k \in 1..Len(user_preferences.attended_events), j \in 1..Len(events) :
        /\ events[j].id = user_preferences.attended_events[k]
        /\ CategorySet(events[j]) \cap CategorySet(events[i]) # {}

\* the bonus of 10 for a non-empty history that shares a category with event i
FlatBoost(i) ==
    IF Len(user_preferences.attended_events) > 0 /\ SharesCategory(i) THEN Num(10) ELSE Num(0)

\* C26: the interest passed to the fuzzy system is min(100, interest + boost),
\* where boost is 10 exactly when the history is non-empty and shares a
\* category with the event and 0 otherwise; the interest without the boost is
\* what is stored as scores_breakdown["interest_match"].
C26_BoostedInterestPassed ==
    Recommended =>
        \A i \in ScoredEvents :
            /\ events[i].scores_breakdown["interest_match"] = match_score(user_preferences, events[i])
            /\ events[i].scores_breakdown["history_boost"] = FlatBoost(i)
            /\ events[i].passed[1] =
                   Min(Num(100), Add(events[i].scores_breakdown["interest_match"], FlatBoost(i)))
            /\ events[i].scores_breakdown["interest_match_boosted"] = events[i].passed[1]

\* with "Music" weighted 1 and event 1 attended: event 1 is passed 100, the
\* sum 110 capped; event 2 is passed 75 + 10; event 3 shares no category with
\* the history and is passed its interest of 50
C26_Witness ==
    /\ Recommended
    /\ error = "none"
    /\ user_preferences.attended_events = <<1>>
    /\ events[1].scores_breakdown["interest_match"] = Num(100)
    /\ events[1].passed[1] = Num(100)
    /\ events[2].scores_breakdown["interest_match"] = Num(75)
    /\ events[2].passed[1] = Num(85)
    /\ events[3].scores_breakdown["history_boost"] = Num(0)
    /\ events[3].passed[1] = Num(50)

\* a score in [0,100]
InRange(value) == IsNumber(value) /\ Le(Num(0), value) /\ Le(value, Num(100))

\* C29: get_recommended_events computes the four scores of every event
\* without raising, and each score it passes to the fuzzy system is in
\* [0,100].
C29_ScoresComputedInRange ==
    Recommended =>
        /\ error = "none"
        /\ \A i \in 1..Len(events) :
               /\ Len(events[i].passed) = 4
               /\ \A k \in 1..4 : InRange(events[i].passed[k])

\* no event id is held twice
OncePerId ==
    \A k, l \in 1..Len(user_preferences.attended_events) :
        user_preferences.attended_events[k] = user_preferences.attended_events[l] => k = l

\* the event id is held in the history
Attended(id) ==
    \E k \in 1..Len(user_preferences.attended_events) : user_preferences.attended_events[k] = id

\* C30: the history holds at most one event per id, and an id is in the
\* history exactly when the last add_event_to_history or
\* remove_event_from_history call for it was an add.
C30_HistoryFollowsLastCall ==
    /\ OncePerId
    /\ \A id \in DOMAIN history_calls : Attended(id) <=> history_calls[id] = "add"

\* event 3 was added once more while held, and event 1 was removed
C30_Witness ==
    /\ last_call = "add_event_to_history"
    /\ user_preferences.attended_events = <<3>>
    /\ history_calls[3] = "add"
    /\ history_calls[1] = "remove"

====
